---- MODULE Spec2Model ----
\* ytdlp-http: an HTTP facade over an external video downloader, with a
\* streaming endpoint (/download) and an object-storage endpoint (/upload),
\* both behind a bearer-token middleware.
\* Strings are modelled as sequences of one-character strings.
EXTENDS Integers, Sequences, FiniteSets, TLC

VARIABLES
    now,        \* wall clock in seconds (deadlines, key timestamps)
    nano,       \* the fine clock read by time.Now().UnixNano()
    mu,         \* ytdlp.Service.mu: the task holding it, or NoTask
    fs,         \* the download directories that exist under tmpDir
    objects,    \* the bucket: a set of [key, body]
    pc,         \* where each task is
    req,        \* each task's request
    deadline,   \* each task's context deadline
    dir,        \* uniqueDir of each task's DownloadVideo
    rm,         \* what removing that directory returned
    media,      \* the file DownloadVideo returned: [ext, size]
    key,        \* the storage key of the video object
    up,         \* UploadVideoWithMetadata: its storage calls and what it returned
    resp,       \* the HTTP response
    sanIn,      \* SanitizeFilename: the input string under test
    sanOnce,    \* SanitizeFilename(sanIn)
    sanTwice,   \* SanitizeFilename(SanitizeFilename(sanIn))
    sanPc,      \* 0: nothing applied, 1: applied once, 2: applied twice
    authEnabled,    \* AuthConfig.Enabled
    authDigest,     \* AuthConfig.APIKey: the configured digest
    authHeader,     \* the Authorization header of the request under test
    authPc,         \* "arrived", then "next" or "aborted", then "served"
    authResp,       \* what the middleware wrote: [status, error]
    handlerRan,     \* whether the route handler has run for the request
    stIn,       \* storage calls under test: the handler's inputs to the key
    stKey,      \* the video key handed to the storage service
    stUp,       \* what UploadVideoWithMetadata did with it
    stDel,      \* what DeleteVideoAndMetadata did with it
    stObjs,     \* the bucket of the storage calls under test
    stPc,       \* "start", "keyed", "uploaded", "deleted"
    scFiles,    \* the scan under test: what os.ReadDir returned
    scInfo,     \* whether the info file can be read and parsed
    scOut,      \* what the scan loop found and DownloadVideo returned
    scPc,       \* "listed", then "scanned", then "returned"
    fMu,        \* the fetcher called alone: the caller holding s.mu, or NoTask
    fCall,      \* which method each caller calls: "info" or "download"
    fPc,        \* "idle", "lock", "held", "running", then "returned"
    fRet        \* the exit path each call took

sanVars == <<sanIn, sanOnce, sanTwice, sanPc>>

authVars == <<authEnabled, authDigest, authHeader, authPc, authResp, handlerRan>>

taskVars == <<pc, req, deadline, dir, rm, media, key, up, resp>>

mainVars == <<now, nano, mu, fs, objects, taskVars>>

storeVars == <<stIn, stKey, stUp, stDel, stObjs, stPc>>

scanVars == <<scFiles, scInfo, scOut, scPc>>

fetchVars == <<fMu, fCall, fPc, fRet>>

vars == <<mainVars, sanVars, authVars, storeVars, scanVars, fetchVars>>

----------------------------------------------------------------------------
\* Bounds

\* number of fragments an input string of SanitizeFilename is built from
MaxParts == 3

\* number of fragments an Authorization header is built from
MaxHdrParts == 3

\* tasks: HTTP requests and direct GetVideoInfo callers
NTasks == 2

\* the last second of the clock
MaxClock == 2

----------------------------------------------------------------------------
\* Strings and internal/utils/files.go

Lower == {"a","b","c","d","e","f","g","h","i","j","k","l","m",
          "n","o","p","q","r","s","t","u","v","w","x","y","z"}
Upper == {"A","B","C","D","E","F","G","H","I","J","K","L","M",
          "N","O","P","Q","R","S","T","U","V","W","X","Y","Z"}
Digit == {"0","1","2","3","4","5","6","7","8","9"}

\* the complement of the character class in regexp [^a-zA-Z0-9\-_.]
SafeChars == Lower \cup Upper \cup Digit \cup {"-", "_", "."}

\* len(sanitized) > 100 ; sanitized[:100]
MaxNameLen == 100

\* sanitized = "file"
FallbackName == <<"f","i","l","e">>

\* reg.ReplaceAllString(filename, "_")
ReplaceUnsafe(s) == [i \in 1..Len(s) |-> IF s[i] \in SafeChars THEN s[i] ELSE "_"]

RECURSIVE TrimLeft(_, _)
TrimLeft(s, c) == IF s # <<>> /\ Head(s) = c THEN TrimLeft(Tail(s), c) ELSE s

RECURSIVE TrimRight(_, _)
TrimRight(s, c) ==
    IF s # <<>> /\ s[Len(s)] = c THEN TrimRight(SubSeq(s, 1, Len(s) - 1), c) ELSE s

\* strings.Trim(sanitized, "_")
Trim(s, c) == TrimRight(TrimLeft(s, c), c)

\* A SanitizeFilename that forgets the fallback for an empty result.
SanitizeFilenameNoFallback(filename) ==
    LET sanitized == Trim(ReplaceUnsafe(filename), "_")
    IN  IF Len(sanitized) > MaxNameLen THEN SubSeq(sanitized, 1, MaxNameLen)
        ELSE sanitized

SanitizeFilename(filename) ==
    LET replaced  == ReplaceUnsafe(filename)
        trimmed   == Trim(replaced, "_")
        truncated == IF Len(trimmed) > MaxNameLen
                     THEN SubSeq(trimmed, 1, MaxNameLen) ELSE trimmed
    IN  IF truncated = <<>> THEN FallbackName ELSE truncated

----------------------------------------------------------------------------
\* Paths and storage keys

Max(S) == CHOOSE x \in S : \A y \in S : y <= x

\* filepath.Ext: the suffix from the last dot of the last path element
Ext(path) ==
    LET stops == {i \in 1..Len(path) : path[i] \in {".", "/"}}
    IN  IF stops = {} THEN <<>>
        ELSE IF path[Max(stops)] = "." THEN SubSeq(path, Max(stops), Len(path))
        ELSE <<>>

\* strings.TrimSuffix
TrimSuffix(s, suffix) ==
    IF Len(suffix) <= Len(s) /\ SubSeq(s, Len(s) - Len(suffix) + 1, Len(s)) = suffix
    THEN SubSeq(s, 1, Len(s) - Len(suffix))
    ELSE s

DigitChars == <<"0","1","2","3","4","5","6","7","8","9">>

\* fmt's %d of a non-negative integer
RECURSIVE Itoa(_)
Itoa(n) == IF n < 10 THEN <<DigitChars[n + 1]>>
           ELSE Itoa(n \div 10) \o <<DigitChars[(n % 10) + 1]>>

\* GenerateUniqueKey, given the Unix time and the random hex string it draws
GenerateUniqueKey(originalFilename, timestamp, randomStr) ==
    LET ext      == Ext(originalFilename)
        baseName == TrimSuffix(originalFilename, ext)
        safeName == SanitizeFilename(baseName)
    IN  Itoa(timestamp) \o <<"_">> \o randomStr \o <<"_">> \o safeName \o ext

\* UploadHandler.generateUniqueS3Key
generateUniqueS3Key(requestedKey, filePath, timestamp, randomStr) ==
    LET ext == Ext(filePath)
        withExt == IF Ext(requestedKey) = <<>> THEN requestedKey \o ext
                   ELSE requestedKey
    IN  GenerateUniqueKey(SanitizeFilename(withExt), timestamp, randomStr)

JsonExt == <<".","j","s","o","n">>

\* A getMetadataKey that appends ".json" and keeps the extension.
getMetadataKeyAppend(videoKey) == videoKey \o JsonExt

\* Service.getMetadataKey
getMetadataKey(videoKey) == TrimSuffix(videoKey, Ext(videoKey)) \o JsonExt

----------------------------------------------------------------------------
\* Values of the concurrent model

Tasks == 1..NTasks
NoTask == 0
NoDir == -1
NoName == <<>>
NoMedia == [ext |-> NoName, size |-> 0]
\* no storage call made yet, nothing returned
NoUpload == [video |-> "none", meta |-> "none", del |-> "none", ret |-> "none"]

\* a deadline past the clock's last second: it never expires in the model
Far == MaxClock + 1

----------------------------------------------------------------------------
\* Requests

\* time.Duration(req.Timeout) * time.Second, 5 minutes when zero (/download)
DefaultDownloadTimeout == 300
\* 10 minutes when zero (/upload)
DefaultUploadTimeout == 600

\* req.Timeout values: 0 (absent) and one second
Timeouts == {0, 1}

\* the requested s3_key
S3Keys == { <<"k">> }

\* sizes in bytes of the file the tool writes
FileSizes == {0, 1}

\* outcome of hex.EncodeToString of the random bytes (shortened)
RandStrs == { <<"0","a">> }

\* a request body as ShouldBindJSON sees it: whether it parses as JSON, and
\* whether it carries a non-empty url and s3_key
MalformedBody == [json |-> FALSE, url |-> FALSE, s3key |-> FALSE]

\* the bodies a client can send to an endpoint (DownloadRequest has no s3_key;
\* a direct call of GetVideoInfo has its url argument)
BodiesFor(endpoint) ==
    IF endpoint = "upload"
    THEN {MalformedBody} \cup [json : {TRUE}, url : BOOLEAN, s3key : BOOLEAN]
    ELSE IF endpoint = "download"
    THEN {MalformedBody} \cup [json : {TRUE}, url : BOOLEAN, s3key : {FALSE}]
    ELSE {[json |-> TRUE, url |-> TRUE, s3key |-> FALSE]}

\* A ShouldBindJSON that accepts every body that parses.
BindOkAnyJSON(endpoint, body) == body.json

\* c.ShouldBindJSON(&req) returns nil: the body parses and every field
\* tagged binding:"required" is there
BindOk(endpoint, body) ==
    /\ body.json
    /\ body.url
    /\ endpoint = "upload" => body.s3key

NoReq == [endpoint |-> "none", s3key |-> NoName, body |-> MalformedBody]

\* the requests of an endpoint that bind, apart from their timeout; "info" is
\* a direct call of GetVideoInfo
RequestsFor(endpoint) ==
    [endpoint : {endpoint},
     s3key : IF endpoint = "upload" THEN S3Keys ELSE {NoName},
     body : {b \in BodiesFor(endpoint) : BindOk(endpoint, b)}]

\* the requests of an endpoint that do not bind
BadRequestsFor(endpoint) ==
    [endpoint : {endpoint}, s3key : {NoName},
     body : {b \in BodiesFor(endpoint) : ~BindOk(endpoint, b)}]

\* the timeouts a caller can ask for: GetVideoInfo's caller brings its own
\* context, taken here without a deadline
TimeoutsFor(endpoint) == IF endpoint = "info" THEN {0} ELSE Timeouts

\* the handlers' timeout: the request's seconds, else the default
EffectiveTimeout(endpoint, timeout) ==
    IF timeout # 0 THEN timeout
    ELSE IF endpoint = "download" THEN DefaultDownloadTimeout
    ELSE DefaultUploadTimeout

\* context.WithTimeout(c.Request.Context(), timeout) at time t
DeadlineAt(t, timeout) == IF t + timeout > MaxClock THEN Far ELSE t + timeout

\* ctx.Done() is closed
Expired(t) == now >= deadline[t]

----------------------------------------------------------------------------
\* Responses

NoResp == [status |-> 0, form |-> "none", error |-> "", success |-> FALSE,
           result |-> FALSE, clen |-> 0, sent |-> 0]

\* c.JSON(status, gin.H{"error": code, "message": ...})
ErrorJSON(status, code) ==
    [NoResp EXCEPT !.status = status, !.form = "error_json", !.error = code]

\* c.JSON(500, UploadResponse{Success: false, Error: ...})
UploadFailure(what) ==
    [NoResp EXCEPT !.status = 500, !.form = "upload_json", !.error = what]

\* c.JSON(200, UploadResponse{Success: true, Result: uploadResult})
UploadSuccess ==
    [NoResp EXCEPT !.status = 200, !.form = "upload_json", !.success = TRUE,
                   !.result = TRUE]

\* c.DataFromReader(200, fileSize, contentType, reader, nil), `sent` bytes copied
FileStream(fileSize, sent) ==
    [NoResp EXCEPT !.status = 200, !.form = "file", !.clen = fileSize, !.sent = sent]

\* the handlers' answer to a failed DownloadVideo
DownloadFailed(endpoint) ==
    IF endpoint = "download" THEN ErrorJSON(500, "download_failed")
    ELSE UploadFailure("download")

\* the handlers' answer to a body that does not bind
BadRequest(endpoint) ==
    IF endpoint = "download" THEN ErrorJSON(400, "bad_request")
    ELSE [UploadFailure("bind") EXCEPT !.status = 400]

\* An UploadVideoWithMetadata that returns a result once the video is stored.
UploadOutcomePartial(video, meta) == IF video = "ok" THEN "result" ELSE "error"

\* what UploadVideoWithMetadata returns, given how its two puts went
UploadOutcome(video, meta) ==
    IF video # "ok" THEN "error"
    ELSE IF meta # "ok" THEN "error"
    ELSE "result"

\* the upload handler's answer to what UploadVideoWithMetadata returned
UploadAnswer(ret) == IF ret = "error" THEN UploadFailure("upload") ELSE UploadSuccess

----------------------------------------------------------------------------
\* The download directory

\* what the tool can leave in the directory, in os.ReadDir's order (by name)
DirEntries == << [name |-> <<"a",".","m","p","4">>, isDir |-> FALSE],
                 [name |-> <<"d">>, isDir |-> TRUE],
                 [name |-> <<"v",".","i","n","f","o">> \o JsonExt, isDir |-> FALSE],
                 [name |-> <<"v",".","m","p","4">>, isDir |-> FALSE] >>

RECURSIVE SubList(_, _, _)
SubList(seq, keep, i) ==
    IF i > Len(seq) THEN <<>>
    ELSE (IF i \in keep THEN <<seq[i]>> ELSE <<>>) \o SubList(seq, keep, i + 1)

Listings == { SubList(DirEntries, keep, 1) : keep \in SUBSET (1..Len(DirEntries)) }

\* A loop over files that stops looking for the media file at its first match.
RECURSIVE ScanDirFirst(_, _, _)
ScanDirFirst(files, videoFile, infoFile) ==
    IF files = <<>> THEN [videoFile |-> videoFile, infoFile |-> infoFile]
    ELSE LET file == Head(files)
         IN  IF Ext(file.name) = JsonExt
             THEN ScanDirFirst(Tail(files), videoFile, file.name)
             ELSE IF ~file.isDir /\ videoFile = NoName
             THEN ScanDirFirst(Tail(files), file.name, infoFile)
             ELSE ScanDirFirst(Tail(files), videoFile, infoFile)

\* the loop over files in DownloadVideo
RECURSIVE ScanDir(_, _, _)
ScanDir(files, videoFile, infoFile) ==
    IF files = <<>> THEN [videoFile |-> videoFile, infoFile |-> infoFile]
    ELSE LET file == Head(files)
         IN  IF Ext(file.name) = JsonExt
             THEN ScanDir(Tail(files), videoFile, file.name)
             ELSE IF ~file.isDir
             THEN ScanDir(Tail(files), file.name, infoFile)
             ELSE ScanDir(Tail(files), videoFile, infoFile)

\* what the loop can find in a directory the tool wrote
ScanResults == { ScanDir(files, NoName, NoName) : files \in Listings }

\* the media files DownloadVideo can return
VideoFiles == { scan.videoFile : scan \in ScanResults } \ {NoName}

\* some directory listing leaves videoFile empty
CanFindNoFile == \E scan \in ScanResults : scan.videoFile = NoName

\* An info step that hands out a VideoInfo whenever the loop found a sidecar.
ReadInfoUnchecked(infoFile, readable, parsable) ==
    IF infoFile = NoName THEN "nil" ELSE "VideoInfo"

\* the info returned by DownloadVideo: os.ReadFile and json.Unmarshal of the
\* sidecar, whose failures are logged and leave info nil
ReadInfo(infoFile, readable, parsable) ==
    IF infoFile = NoName THEN "nil"
    ELSE IF ~readable THEN "nil"
    ELSE IF ~parsable THEN "nil"
    ELSE "VideoInfo"

\* filepath.Join(uniqueDir, file.Name())
Join(d, name) == d \o <<"/">> \o name

\* An os.RemoveAll that reports success and removes nothing.
RemoveAllNothing(files, d, ok) == files

\* os.RemoveAll(dir): ok tells whether it succeeded
RemoveAll(files, d, ok) == IF ok THEN files \ {d} ELSE files

RmResult(ok) == IF ok THEN "removed" ELSE "failed"

\* A fine clock that stands still between two critical sections.
ClockStuck(n) == n

\* time.Now().UnixNano() as read under the mutex by the next invocation: the
\* clock has advanced since the invocation that just left the critical section
ClockAfter(n) == n + 1

----------------------------------------------------------------------------
\* Tasks

MainInit ==
    /\ now = 0
    /\ nano = 0
    /\ mu = NoTask
    /\ fs = {}
    /\ objects = {}
    /\ pc = [t \in Tasks |-> "idle"]
    /\ req = [t \in Tasks |-> NoReq]
    /\ deadline = [t \in Tasks |-> 0]
    /\ dir = [t \in Tasks |-> NoDir]
    /\ rm = [t \in Tasks |-> "none"]
    /\ media = [t \in Tasks |-> NoMedia]
    /\ key = [t \in Tasks |-> NoName]
    /\ up = [t \in Tasks |-> NoUpload]
    /\ resp = [t \in Tasks |-> NoResp]

\* no SanitizeFilename call under test
SanIdle ==
    /\ sanIn = <<>>
    /\ sanOnce = <<>>
    /\ sanTwice = <<>>
    /\ sanPc = 0

NoAuthResp == [status |-> 0, error |-> ""]

\* no request at the middleware
AuthIdle ==
    /\ authEnabled = FALSE
    /\ authDigest = <<>>
    /\ authHeader = <<>>
    /\ authPc = "none"
    /\ authResp = NoAuthResp
    /\ handlerRan = FALSE

NoStoreIn == [s3key |-> NoName, file |-> NoName, ts |-> 0, rand |-> NoName]
NoStoreUp == [metaKey |-> NoName, video |-> "none", meta |-> "none",
              del |-> "none", ret |-> "none"]
NoStoreDel == [attempts |-> <<>>, errors |-> <<>>, ret |-> "none"]

\* no storage call under test
StoreIdle ==
    /\ stIn = NoStoreIn
    /\ stKey = NoName
    /\ stUp = NoStoreUp
    /\ stDel = NoStoreDel
    /\ stObjs = {}
    /\ stPc = "none"

NoScanOut == [videoFile |-> NoName, infoFile |-> NoName, path |-> NoName,
              info |-> "none", err |-> "none", removed |-> FALSE]

\* no scan under test
ScanIdle ==
    /\ scFiles = <<>>
    /\ scInfo = [readable |-> FALSE, parsable |-> FALSE]
    /\ scOut = NoScanOut
    /\ scPc = "none"

FetchIdle ==
    /\ fMu = NoTask
    /\ fCall = [t \in Tasks |-> "none"]
    /\ fPc = [t \in Tasks |-> "idle"]
    /\ fRet = [t \in Tasks |-> "none"]

Init == MainInit /\ SanIdle /\ AuthIdle /\ StoreIdle /\ ScanIdle /\ FetchIdle

\* no task stands between its return and Forget
Settled == \A t \in Tasks : pc[t] # "done"

\* A valid request enters its handler (or a caller enters GetVideoInfo) and
\* gets its context; tasks are numbered in the order they arrive.
Receive(t) ==
    /\ Settled
    /\ pc[t] = "idle"
    /\ \A earlier \in 1..(t - 1) : pc[earlier] # "idle"
    /\ \E endpoint \in {"download", "upload", "info"} :
         \E r \in RequestsFor(endpoint), timeout \in TimeoutsFor(endpoint) :
            /\ req' = [req EXCEPT ![t] = r]
            /\ deadline' = [deadline EXCEPT ![t] =
                              DeadlineAt(now, EffectiveTimeout(endpoint, timeout))]
    /\ pc' = [pc EXCEPT ![t] = "lock"]
    /\ UNCHANGED <<now, nano, mu, fs, objects, dir, rm, media, key, up, resp>>
    /\ UNCHANGED <<sanVars, authVars, storeVars, scanVars, fetchVars>>

\* A request whose body does not bind is answered 400 and the handler returns.
Reject(t) ==
    /\ Settled
    /\ pc[t] = "idle"
    /\ \A earlier \in 1..(t - 1) : pc[earlier] # "idle"
    /\ \E endpoint \in {"download", "upload"} :
         \E r \in BadRequestsFor(endpoint) :
            /\ req' = [req EXCEPT ![t] = r]
            /\ resp' = [resp EXCEPT ![t] = BadRequest(endpoint)]
    /\ pc' = [pc EXCEPT ![t] = "done"]
    /\ UNCHANGED <<now, nano, mu, fs, objects, deadline, dir, rm, media, key, up>>
    /\ UNCHANGED <<sanVars, authVars, storeVars, scanVars, fetchVars>>

\* An s.mu.Lock() that returns whoever holds the mutex.
CanLockAlways(t) == TRUE

\* s.mu.Lock() returns only when nobody holds the mutex
CanLock(t) == mu = NoTask

\* An exit path that leaves the mutex to its holder.
UnlockSkipped(holder) == holder

\* the deferred s.mu.Unlock() of GetVideoInfo and DownloadVideo
Unlock(holder) == NoTask

\* The task returns from its handler with this response; the deferred
\* cancel() releases its context.
Return(t, response) ==
    /\ resp' = [resp EXCEPT ![t] = response]
    /\ pc' = [pc EXCEPT ![t] = "done"]
    /\ deadline' = [deadline EXCEPT ![t] = 0]
    /\ UNCHANGED req

\* The response has been delivered and the task's locals are gone. This is
\* the next thing that happens after a return: it touches nothing shared.
Forget(t) ==
    /\ pc[t] = "done"
    /\ pc' = [pc EXCEPT ![t] = "closed"]
    /\ req' = [req EXCEPT ![t] = NoReq]
    /\ deadline' = [deadline EXCEPT ![t] = 0]
    /\ dir' = [dir EXCEPT ![t] = NoDir]
    /\ rm' = [rm EXCEPT ![t] = "none"]
    /\ media' = [media EXCEPT ![t] = NoMedia]
    /\ key' = [key EXCEPT ![t] = NoName]
    /\ up' = [up EXCEPT ![t] = NoUpload]
    /\ resp' = [resp EXCEPT ![t] = NoResp]
    /\ UNCHANGED <<now, nano, mu, fs, objects>>
    /\ UNCHANGED <<sanVars, authVars, storeVars, scanVars, fetchVars>>

\* The task goes on to its next blocking call.
Goto(t, label) ==
    /\ pc' = [pc EXCEPT ![t] = label]
    /\ UNCHANGED <<resp, deadline, req>>

\* os.RemoveAll(uniqueDir) on an error path of DownloadVideo, or the
\* handler's deferred CleanupFile(filePath)
RemoveDir(t) ==
    \E ok \in BOOLEAN :
        /\ fs' = RemoveAll(fs, dir[t], ok)
        /\ rm' = [rm EXCEPT ![t] = RmResult(ok)]

\* A deferred cleanup whose failure replaces the handler's answer.
DeferredCleanupFails(response, removal) ==
    IF removal = "failed" THEN ErrorJSON(500, "cleanup_failed") ELSE response

\* what the client gets once the handler's deferred CleanupFile(filePath) has
\* run: the closure logs the error of the removal and touches nothing else
DeferredCleanup(response, removal) == response

\* DownloadVideo up to the start of the external tool
DVBegin(t) ==
    /\ Settled
    /\ pc[t] = "lock"
    /\ req[t].endpoint \in {"download", "upload"}
    /\ CanLock(t)
    /\ \/ \* os.MkdirAll fails: the error is returned, the mutex released
          /\ Return(t, DownloadFailed(req[t].endpoint))
          /\ nano' = ClockAfter(nano)
          /\ UNCHANGED <<mu, fs, dir, rm>>
       \/ \* the context is already done: cmd.Run fails at once
          /\ Expired(t)
          /\ \E ok \in BOOLEAN :
                /\ fs' = RemoveAll(fs \cup {nano}, nano, ok)
                /\ rm' = [rm EXCEPT ![t] = RmResult(ok)]
          /\ dir' = [dir EXCEPT ![t] = nano]
          /\ Return(t, DownloadFailed(req[t].endpoint))
          /\ nano' = ClockAfter(nano)
          /\ UNCHANGED mu
       \/ \* the tool starts
          /\ ~Expired(t)
          /\ mu' = t
          /\ fs' = fs \cup {nano}
          /\ dir' = [dir EXCEPT ![t] = nano]
          /\ Goto(t, "running")
          /\ UNCHANGED <<nano, rm>>
    /\ UNCHANGED <<now, objects, media, key, up>>
    /\ UNCHANGED <<sanVars, authVars, storeVars, scanVars, fetchVars>>

\* cmd.Run returns an error: non-zero exit, or killed when the context is done
DVToolError(t) ==
    /\ Settled
    /\ pc[t] = "running"
    /\ req[t].endpoint \in {"download", "upload"}
    /\ RemoveDir(t)
    /\ Return(t, DownloadFailed(req[t].endpoint))
    /\ mu' = Unlock(mu)
    /\ nano' = ClockAfter(nano)
    /\ UNCHANGED <<now, objects, dir, media, key, up>>
    /\ UNCHANGED <<sanVars, authVars, storeVars, scanVars, fetchVars>>

\* the tool exits with success but the directory holds no media file (or
\* os.ReadDir fails, which ends the same way)
DVNoFile(t) ==
    /\ Settled
    /\ pc[t] = "running"
    /\ req[t].endpoint \in {"download", "upload"}
    /\ ~Expired(t)
    /\ CanFindNoFile
    /\ RemoveDir(t)
    /\ Return(t, DownloadFailed(req[t].endpoint))
    /\ mu' = Unlock(mu)
    /\ nano' = ClockAfter(nano)
    /\ UNCHANGED <<now, objects, dir, media, key, up>>
    /\ UNCHANGED <<sanVars, authVars, storeVars, scanVars, fetchVars>>

\* the tool exits with success and left a media file: DownloadVideo returns
\* it, and the handler goes on to its next blocking call
DVSuccess(t) ==
    /\ Settled
    /\ pc[t] = "running"
    /\ req[t].endpoint \in {"download", "upload"}
    /\ ~Expired(t)
    /\ mu' = Unlock(mu)
    /\ nano' = ClockAfter(nano)
    /\ \E videoFile \in VideoFiles :
         /\ IF req[t].endpoint = "download"
            THEN \/ \* GetVideoReader fails
                    /\ RemoveDir(t)
                    /\ Return(t, DeferredCleanup(ErrorJSON(500, "file_read_error"),
                                                 rm'[t]))
                    /\ UNCHANGED <<media, key>>
                 \/ \* the file is open: headers are set, streaming starts
                    \E size \in FileSizes :
                       /\ media' = [media EXCEPT ![t] =
                                       [ext |-> Ext(videoFile), size |-> size]]
                       /\ Goto(t, "streaming")
                       /\ UNCHANGED <<fs, rm, key>>
            ELSE \E randomStr \in RandStrs :
                    /\ media' = [media EXCEPT ![t] =
                                    [ext |-> Ext(videoFile), size |-> 0]]
                    /\ key' = [key EXCEPT ![t] =
                          generateUniqueS3Key(req[t].s3key, videoFile, now, randomStr)]
                    /\ Goto(t, "put_video")
                    /\ UNCHANGED <<fs, rm>>
    /\ UNCHANGED <<now, objects, dir, up>>
    /\ UNCHANGED <<sanVars, authVars, storeVars, scanVars, fetchVars>>

\* what GetVideoInfo returned to its caller
InfoReturn(ok) ==
    [NoResp EXCEPT !.form = IF ok THEN "video_info" ELSE "error"]

\* GetVideoInfo up to the start of the external tool
GVIBegin(t) ==
    /\ Settled
    /\ pc[t] = "lock"
    /\ req[t].endpoint = "info"
    /\ CanLock(t)
    /\ mu' = t
    /\ Goto(t, "running")
    /\ UNCHANGED <<now, nano, fs, objects, dir, rm, media, key, up>>
    /\ UNCHANGED <<sanVars, authVars, storeVars, scanVars, fetchVars>>

\* cmd.Output returns: an error, or output that parses or does not
GVIExit(t) ==
    /\ Settled
    /\ pc[t] = "running"
    /\ req[t].endpoint = "info"
    /\ \E ok \in BOOLEAN : Return(t, InfoReturn(ok))
    /\ mu' = Unlock(mu)
    /\ nano' = ClockAfter(nano)
    /\ UNCHANGED <<now, fs, objects, dir, rm, media, key, up>>
    /\ UNCHANGED <<sanVars, authVars, storeVars, scanVars, fetchVars>>

\* c.DataFromReader copies the file to the client until the end of the file
\* or until the client is gone; then the reader is closed and the deferred
\* CleanupFile runs
StreamEnd(t) ==
    /\ Settled
    /\ pc[t] = "streaming"
    /\ RemoveDir(t)
    /\ \E sent \in 0..media[t].size :
          Return(t, DeferredCleanup(FileStream(media[t].size, sent), rm'[t]))
    /\ UNCHANGED <<now, nano, mu, objects, dir, media, key, up>>
    /\ UNCHANGED <<sanVars, authVars, storeVars, scanVars, fetchVars>>

----------------------------------------------------------------------------
\* Object storage

\* s3 PutObject: the object replaces what the key held
PutObject(objs, k, body) ==
    {o \in objs : o.key # k} \cup {[key |-> k, body |-> body]}

\* s3 DeleteObject
DeleteObject(objs, k) == {o \in objs : o.key # k}

StoredKeys == {o.key : o \in objects}

\* the outcome of DeleteFile
DelResult(ok) == IF ok THEN "deleted" ELSE "failed"

\* uploadFile(ctx, filePath, key), the first call of UploadVideoWithMetadata
PutVideo(t) ==
    /\ Settled
    /\ pc[t] = "put_video"
    /\ \/ \* opening the file or the put fails: the error goes to the handler
          /\ up' = [up EXCEPT ![t].video = "failed",
                              ![t].ret = UploadOutcome("failed", "none")]
          /\ RemoveDir(t)
          /\ Return(t, DeferredCleanup(UploadAnswer(up'[t].ret), rm'[t]))
          /\ UNCHANGED objects
       \/ /\ ~Expired(t)
          /\ objects' = PutObject(objects, key[t], "video")
          /\ up' = [up EXCEPT ![t].video = "ok"]
          /\ Goto(t, "put_meta")
          /\ UNCHANGED <<fs, rm>>
    /\ UNCHANGED <<now, nano, mu, dir, media, key>>
    /\ UNCHANGED <<sanVars, authVars, storeVars, scanVars, fetchVars>>

\* the rest of UploadVideoWithMetadata: uploadMetadata(ctx, metadataKey, ...);
\* when it fails DeleteFile(ctx, key), whose error is only logged, and the
\* metadata error is returned; else the result. Then the handler answers and
\* its deferred CleanupFile runs.
PutMetadata(t) ==
    /\ Settled
    /\ pc[t] = "put_meta"
    /\ \/ \E delOk \in BOOLEAN :
             /\ delOk => ~Expired(t)
             /\ objects' = IF delOk THEN DeleteObject(objects, key[t]) ELSE objects
             /\ up' = [up EXCEPT ![t].meta = "failed",
                                 ![t].del = DelResult(delOk),
                                 ![t].ret = UploadOutcome("ok", "failed")]
       \/ /\ ~Expired(t)
          /\ objects' = PutObject(objects, getMetadataKey(key[t]), "metadata")
          /\ up' = [up EXCEPT ![t].meta = "ok",
                              ![t].ret = UploadOutcome("ok", "ok")]
    /\ RemoveDir(t)
    /\ Return(t, DeferredCleanup(UploadAnswer(up'[t].ret), rm'[t]))
    /\ UNCHANGED <<now, nano, mu, dir, media, key>>
    /\ UNCHANGED <<sanVars, authVars, storeVars, scanVars, fetchVars>>

----------------------------------------------------------------------------
\* Time

\* calls bound to a context end at once when it is done
Cancellable == {"running", "put_video", "put_meta"}

\* A second passes. No time passes between a context's end and the return of
\* the call bound to it, nor before a free mutex is taken; a task waiting for
\* a held mutex waits whatever its context says.
Tick ==
    /\ Settled
    /\ now < MaxClock
    /\ \A t \in Tasks : pc[t] \in Cancellable => ~Expired(t)
    /\ \A t \in Tasks : pc[t] = "lock" => mu # NoTask
    /\ now' = now + 1
    /\ UNCHANGED <<nano, mu, fs, objects, taskVars>>
    /\ UNCHANGED <<sanVars, authVars, storeVars, scanVars, fetchVars>>

Next ==
    \/ \E t \in Tasks : Receive(t)
    \/ \E t \in Tasks : Reject(t)
    \/ \E t \in Tasks : DVBegin(t)
    \/ \E t \in Tasks : DVToolError(t)
    \/ \E t \in Tasks : DVNoFile(t)
    \/ \E t \in Tasks : DVSuccess(t)
    \/ \E t \in Tasks : GVIBegin(t)
    \/ \E t \in Tasks : GVIExit(t)
    \/ \E t \in Tasks : StreamEnd(t)
    \/ \E t \in Tasks : PutVideo(t)
    \/ \E t \in Tasks : PutMetadata(t)
    \/ \E t \in Tasks : Forget(t)
    \/ Tick

Spec == Init /\ [][Next]_vars

----------------------------------------------------------------------------
\* Inputs of SanitizeFilename: concatenations of at most MaxParts fragments.
\* LongRun is one character short of the truncation limit, so two or three
\* fragments reach and cross it.

LongRun == [i \in 1..(MaxNameLen - 1) |-> "a"]

Fragments == { FallbackName, <<"_">>, <<"#">>, <<".">>, <<"b">>, LongRun }

RECURSIVE Concats(_, _)
Concats(parts, n) ==
    IF n = 0 THEN { <<>> }
    ELSE LET shorter == Concats(parts, n - 1)
         IN  shorter \cup { s \o f : s \in shorter, f \in parts }

SanInputs == Concats(Fragments, MaxParts)

SanInit ==
    /\ sanIn \in SanInputs
    /\ sanOnce = <<>>
    /\ sanTwice = <<>>
    /\ sanPc = 0
    /\ MainInit
    /\ AuthIdle
    /\ StoreIdle
    /\ ScanIdle
    /\ FetchIdle

\* one call of SanitizeFilename on the input
SanApply ==
    /\ sanPc = 0
    /\ sanOnce' = SanitizeFilename(sanIn)
    /\ sanPc' = 1
    /\ UNCHANGED <<sanIn, sanTwice>>
    /\ UNCHANGED <<mainVars, authVars, storeVars, scanVars, fetchVars>>

\* a second call, on the result of the first
SanApplyAgain ==
    /\ sanPc = 1
    /\ sanTwice' = SanitizeFilename(sanOnce)
    /\ sanPc' = 2
    /\ UNCHANGED <<sanIn, sanOnce>>
    /\ UNCHANGED <<mainVars, authVars, storeVars, scanVars, fetchVars>>

SanNext == SanApply \/ SanApplyAgain

SpecSanitize == SanInit /\ [][SanNext]_vars

----------------------------------------------------------------------------
\* The bearer-token middleware, which RunHTTPServer installs before every route

UpperSeq == <<"A","B","C","D","E","F","G","H","I","J","K","L","M",
              "N","O","P","Q","R","S","T","U","V","W","X","Y","Z">>
LowerSeq == <<"a","b","c","d","e","f","g","h","i","j","k","l","m",
              "n","o","p","q","r","s","t","u","v","w","x","y","z">>

\* strings.ToLower
ToLower(s) ==
    [i \in 1..Len(s) |->
        IF s[i] \in Upper
        THEN LowerSeq[CHOOSE j \in 1..Len(UpperSeq) : UpperSeq[j] = s[i]]
        ELSE s[i]]

\* strings.SplitN(s, " ", 2)
SplitN2(s) ==
    LET spaces == {i \in 1..Len(s) : s[i] = " "}
    IN  IF spaces = {} THEN << s >>
        ELSE LET first == CHOOSE i \in spaces : \A j \in spaces : i <= j
             IN  << SubSeq(s, 1, first - 1), SubSeq(s, first + 1, Len(s)) >>

\* fmt.Sprintf("%x", sha256.Sum256(key)): the digest of a key in lower-case
\* hex; different keys have different digests
hashKey(k) == [of |-> k, hex |-> "lower"]

\* the same digest written in upper-case hex
UpperHex(digest) == [digest EXCEPT !.hex = "upper"]

\* A validateAPIKey that accepts every key.
validateAPIKeyAny(providedKey, expectedHash) == TRUE

\* AuthMiddleware.validateAPIKey
validateAPIKey(providedKey, expectedHash) == hashKey(providedKey) = expectedHash

BearerWord == <<"B","e","a","r","e","r">>
bearerWord == <<"b","e","a","r","e","r">>

\* the pieces Authorization headers are built from
HeaderParts == { BearerWord, bearerWord, <<"B","a","s","i","c">>, <<" ">>,
                 <<"k">>, <<"q">> }

Headers == Concats(HeaderParts, MaxHdrParts)

\* the digests the operator can have configured: of the key "k", in the form
\* hashKey prints and in upper case
ConfiguredDigests == { hashKey(<<"k">>), UpperHex(hashKey(<<"k">>)) }

Unauthorized == [status |-> 401, error |-> "unauthorized"]

AuthInit ==
    /\ authEnabled \in BOOLEAN
    /\ authDigest \in ConfiguredDigests
    /\ authHeader \in Headers
    /\ authPc = "arrived"
    /\ authResp = NoAuthResp
    /\ handlerRan = FALSE
    /\ MainInit
    /\ SanIdle
    /\ StoreIdle
    /\ ScanIdle
    /\ FetchIdle

\* whether the middleware lets the request through
Admitted(enabled, digest, header) ==
    LET parts == SplitN2(header)
    IN  IF ~enabled THEN TRUE
        ELSE IF header = <<>> THEN FALSE
        ELSE IF Len(parts) # 2 \/ ToLower(parts[1]) # bearerWord THEN FALSE
        ELSE validateAPIKey(parts[2], digest)

\* AuthMiddleware.Authenticate: c.Next(), or 401 and c.Abort()
Authenticate ==
    /\ authPc = "arrived"
    /\ IF Admitted(authEnabled, authDigest, authHeader)
       THEN /\ authPc' = "next"
            /\ UNCHANGED authResp
       ELSE /\ authPc' = "aborted"
            /\ authResp' = Unauthorized
    /\ UNCHANGED <<authEnabled, authDigest, authHeader, handlerRan>>
    /\ UNCHANGED <<mainVars, sanVars, storeVars, scanVars, fetchVars>>

\* gin runs the route handler unless the chain was aborted
RouteHandler ==
    /\ authPc = "next"
    /\ handlerRan' = TRUE
    /\ authPc' = "served"
    /\ UNCHANGED <<authEnabled, authDigest, authHeader, authResp>>
    /\ UNCHANGED <<mainVars, sanVars, storeVars, scanVars, fetchVars>>

AuthNext == Authenticate \/ RouteHandler

SpecAuth == AuthInit /\ [][AuthNext]_vars

----------------------------------------------------------------------------
\* The storage service called alone: one video key, uploaded and then deleted

\* requested s3_key values: without an extension, with a media extension, with
\* the metadata extension, and with a dot in a directory part only
StoreS3Keys == { <<"k">>, <<"k",".","m","p","4">>, <<"k">> \o JsonExt,
                 <<"a",".","b","/","c">> }

\* the file DownloadVideo returned: with and without an extension
StoreFiles == { <<"v",".","m","p","4">>, <<"v">> }

\* video keys a caller of the service can pass directly
DirectKeys == { <<"a",".","b","/","c">>, <<"d","/","v",".","m","p","4">>,
                <<"n",".","t","a","r",".","g","z">>, <<"x">> \o JsonExt }

StoreInputs ==
    [s3key : StoreS3Keys, file : StoreFiles, ts : {0, 1}, rand : RandStrs]

\* UploadVideoWithMetadata as one call: the storage's answers to the video
\* put, the metadata put and the compensating delete are okVideo, okMeta, okDel
UploadVideoWithMetadata(objs, videoKey, okVideo, okMeta, okDel) ==
    LET metadataKey == getMetadataKey(videoKey)
        afterVideo  == PutObject(objs, videoKey, "video")
    IN  IF ~okVideo
        THEN [objs |-> objs, metaKey |-> NoName, video |-> "failed",
              meta |-> "none", del |-> "none",
              ret |-> UploadOutcome("failed", "none")]
        ELSE IF ~okMeta
        THEN [objs |-> IF okDel THEN DeleteObject(afterVideo, videoKey)
                       ELSE afterVideo,
              metaKey |-> metadataKey, video |-> "ok", meta |-> "failed",
              del |-> DelResult(okDel), ret |-> UploadOutcome("ok", "failed")]
        ELSE [objs |-> PutObject(afterVideo, metadataKey, "metadata"),
              metaKey |-> metadataKey, video |-> "ok", meta |-> "ok",
              del |-> "none", ret |-> UploadOutcome("ok", "ok")]

\* A DeleteVideoAndMetadata that stops at the first deletion that fails.
DeleteVideoAndMetadataStopping(objs, videoKey, okVideo, okMeta) ==
    IF ~okVideo
    THEN [objs |-> objs, attempts |-> << [key |-> videoKey, ok |-> FALSE] >>,
          errors |-> << "video" >>, ret |-> "error"]
    ELSE [objs |-> IF okMeta
                   THEN DeleteObject(DeleteObject(objs, videoKey),
                                     getMetadataKey(videoKey))
                   ELSE DeleteObject(objs, videoKey),
          attempts |-> << [key |-> videoKey, ok |-> TRUE],
                          [key |-> getMetadataKey(videoKey), ok |-> okMeta] >>,
          errors |-> IF okMeta THEN << >> ELSE << "metadata" >>,
          ret |-> IF okMeta THEN "nil" ELSE "error"]

\* DeleteVideoAndMetadata: the storage's answers to the two DeleteObject calls
\* are okVideo and okMeta
DeleteVideoAndMetadata(objs, videoKey, okVideo, okMeta) ==
    LET metadataKey == getMetadataKey(videoKey)
        afterVideo  == IF okVideo THEN DeleteObject(objs, videoKey) ELSE objs
        errors1     == IF okVideo THEN << >> ELSE << "video" >>
        afterMeta   == IF okMeta THEN DeleteObject(afterVideo, metadataKey)
                       ELSE afterVideo
        errors2     == IF okMeta THEN errors1 ELSE Append(errors1, "metadata")
    IN  [objs |-> afterMeta,
         attempts |-> << [key |-> videoKey, ok |-> okVideo],
                         [key |-> metadataKey, ok |-> okMeta] >>,
         errors |-> errors2,
         ret |-> IF Len(errors2) > 0 THEN "error" ELSE "nil"]

\* Either the upload handler is about to build the key from its request and
\* the downloaded file, or a caller holds a video key of its own.
StoreInit ==
    /\ \/ /\ stIn \in StoreInputs
          /\ stKey = NoName
          /\ stPc = "start"
       \/ /\ stIn = NoStoreIn
          /\ stKey \in DirectKeys
          /\ stPc = "keyed"
    /\ stUp = NoStoreUp
    /\ stDel = NoStoreDel
    /\ stObjs = {}
    /\ MainInit
    /\ SanIdle
    /\ AuthIdle
    /\ ScanIdle
    /\ FetchIdle

\* uniqueKey := h.generateUniqueS3Key(req.S3Key, filePath)
StoreKeyGen ==
    /\ stPc = "start"
    /\ stKey' = generateUniqueS3Key(stIn.s3key, stIn.file, stIn.ts, stIn.rand)
    /\ stPc' = "keyed"
    /\ UNCHANGED <<stIn, stUp, stDel, stObjs>>
    /\ UNCHANGED <<mainVars, sanVars, authVars, scanVars, fetchVars>>

\* s3Service.UploadVideoWithMetadata(ctx, filePath, uniqueKey, videoInfo)
StoreUpload ==
    /\ stPc = "keyed"
    /\ \E okVideo, okMeta, okDel \in BOOLEAN :
          LET call == UploadVideoWithMetadata(stObjs, stKey, okVideo, okMeta, okDel)
          IN  /\ stObjs' = call.objs
              /\ stUp' = [metaKey |-> call.metaKey, video |-> call.video,
                          meta |-> call.meta, del |-> call.del, ret |-> call.ret]
    /\ stPc' = "uploaded"
    /\ UNCHANGED <<stIn, stKey, stDel>>
    /\ UNCHANGED <<mainVars, sanVars, authVars, scanVars, fetchVars>>

\* s3Service.DeleteVideoAndMetadata(ctx, videoKey) on the same video key
StoreDelete ==
    /\ stPc = "uploaded"
    /\ \E okVideo, okMeta \in BOOLEAN :
          LET call == DeleteVideoAndMetadata(stObjs, stKey, okVideo, okMeta)
          IN  /\ stObjs' = call.objs
              /\ stDel' = [attempts |-> call.attempts, errors |-> call.errors,
                           ret |-> call.ret]
    /\ stPc' = "deleted"
    /\ UNCHANGED <<stIn, stKey, stUp>>
    /\ UNCHANGED <<mainVars, sanVars, authVars, scanVars, fetchVars>>

StoreNext == StoreKeyGen \/ StoreUpload \/ StoreDelete

SpecStore == StoreInit /\ [][StoreNext]_vars

----------------------------------------------------------------------------
\* The end of DownloadVideo, after the tool exited with success

\* uniqueDir of the call
ScanDirName == <<"t">>

\* the directory listing and what reading the sidecar will do
ScanInit ==
    /\ scFiles \in Listings
    /\ scInfo \in [readable : BOOLEAN, parsable : BOOLEAN]
    /\ scOut = NoScanOut
    /\ scPc = "listed"
    /\ MainInit /\ SanIdle /\ AuthIdle /\ StoreIdle /\ FetchIdle

\* the loop over files
ScanLoop ==
    /\ scPc = "listed"
    /\ LET scan == ScanDir(scFiles, NoName, NoName)
       IN  scOut' = [scOut EXCEPT !.videoFile = scan.videoFile,
                                  !.infoFile = scan.infoFile]
    /\ scPc' = "scanned"
    /\ UNCHANGED <<scFiles, scInfo>>
    /\ UNCHANGED <<mainVars, sanVars, authVars, storeVars, fetchVars>>

\* videoFile == "": the directory is removed and an error returned
ScanNotFound ==
    /\ scPc = "scanned"
    /\ scOut.videoFile = NoName
    /\ scOut' = [scOut EXCEPT !.removed = TRUE, !.err = "not_found", !.info = "nil"]
    /\ scPc' = "returned"
    /\ UNCHANGED <<scFiles, scInfo>>
    /\ UNCHANGED <<mainVars, sanVars, authVars, storeVars, fetchVars>>

\* the sidecar is read if there is one, and the media file's path returned
ScanReturn ==
    /\ scPc = "scanned"
    /\ scOut.videoFile # NoName
    /\ scOut' = [scOut EXCEPT
                    !.path = Join(ScanDirName, scOut.videoFile),
                    !.info = ReadInfo(scOut.infoFile, scInfo.readable, scInfo.parsable),
                    !.err = "nil"]
    /\ scPc' = "returned"
    /\ UNCHANGED <<scFiles, scInfo>>
    /\ UNCHANGED <<mainVars, sanVars, authVars, storeVars, fetchVars>>

ScanNext == ScanLoop \/ ScanNotFound \/ ScanReturn

SpecScan == ScanInit /\ [][ScanNext]_vars

----------------------------------------------------------------------------
\* The fetcher called alone: GetVideoInfo and DownloadVideo and their mutex

\* how a call can end once the tool was started
ExitPaths(call) ==
    IF call = "info" THEN {"tool_error", "parse_error", "ok"}
    ELSE {"tool_error", "read_error", "not_found", "ok"}

FetchInit ==
    /\ FetchIdle
    /\ MainInit /\ SanIdle /\ AuthIdle /\ StoreIdle /\ ScanIdle

\* a caller enters GetVideoInfo or DownloadVideo and reaches s.mu.Lock()
FetchCall(t) ==
    /\ fPc[t] = "idle"
    /\ \E call \in {"info", "download"} : fCall' = [fCall EXCEPT ![t] = call]
    /\ fPc' = [fPc EXCEPT ![t] = "lock"]
    /\ UNCHANGED <<fMu, fRet>>
    /\ UNCHANGED <<mainVars, sanVars, authVars, storeVars, scanVars>>

\* s.mu.Lock() returns
FetchLock(t) ==
    /\ fPc[t] = "lock"
    /\ fMu = NoTask
    /\ fMu' = t
    /\ fPc' = [fPc EXCEPT ![t] = "held"]
    /\ UNCHANGED <<fCall, fRet>>
    /\ UNCHANGED <<mainVars, sanVars, authVars, storeVars, scanVars>>

\* os.MkdirAll fails in DownloadVideo: the error is returned
FetchMkdirError(t) ==
    /\ fPc[t] = "held"
    /\ fCall[t] = "download"
    /\ fRet' = [fRet EXCEPT ![t] = "mkdir_error"]
    /\ fPc' = [fPc EXCEPT ![t] = "returned"]
    /\ fMu' = Unlock(fMu)
    /\ UNCHANGED fCall
    /\ UNCHANGED <<mainVars, sanVars, authVars, storeVars, scanVars>>

\* the external tool is started: cmd.Output() or cmd.Run()
FetchRun(t) ==
    /\ fPc[t] = "held"
    /\ fPc' = [fPc EXCEPT ![t] = "running"]
    /\ UNCHANGED <<fMu, fCall, fRet>>
    /\ UNCHANGED <<mainVars, sanVars, authVars, storeVars, scanVars>>

\* the tool exits, or is killed when the context is done, and the call
\* returns on one of its exit paths
FetchExit(t) ==
    /\ fPc[t] = "running"
    /\ \E path \in ExitPaths(fCall[t]) : fRet' = [fRet EXCEPT ![t] = path]
    /\ fPc' = [fPc EXCEPT ![t] = "returned"]
    /\ fMu' = Unlock(fMu)
    /\ UNCHANGED fCall
    /\ UNCHANGED <<mainVars, sanVars, authVars, storeVars, scanVars>>

FetchNext ==
    \/ \E t \in Tasks : FetchCall(t)
    \/ \E t \in Tasks : FetchLock(t)
    \/ \E t \in Tasks : FetchMkdirError(t)
    \/ \E t \in Tasks : FetchRun(t)
    \/ \E t \in Tasks : FetchExit(t)

SpecFetch == FetchInit /\ [][FetchNext]_vars

\* The goroutine that holds the mutex runs on, and a tool that was started
\* exits or is cancelled.
FetchFairness ==
    \A t \in Tasks :
        /\ WF_vars(FetchMkdirError(t) \/ FetchRun(t))
        /\ WF_vars(FetchExit(t))

FairSpecFetch == SpecFetch /\ FetchFairness

----------------------------------------------------------------------------
\* Claims

\* the tasks whose handler has just returned
Returned == {t \in Tasks : pc[t] = "done"}

\* C1: after UploadVideoWithMetadata has returned an error because the
\* metadata put failed following a successful video put, no object is stored
\* under the video key, whatever the storage service answered.
C1_NoOrphanVideo ==
    \A t \in Returned :
        (up[t].video = "ok" /\ up[t].meta = "failed") => key[t] \notin StoredKeys

\* C2: UploadVideoWithMetadata returns a result if and only if both puts
\* succeeded; when a put fails it returns an error and the /upload handler
\* answers 500 with success=false and no result.
C2_ResultIffBothStored ==
    \A t \in Returned :
        req[t].endpoint = "upload" =>
            /\ (up[t].ret = "result") <=> (up[t].video = "ok" /\ up[t].meta = "ok")
            /\ up[t].ret = "result" => resp[t] = UploadSuccess
            /\ (up[t].video = "failed" \/ up[t].meta = "failed") =>
                  /\ up[t].ret = "error"
                  /\ resp[t].status = 500
                  /\ ~resp[t].success
                  /\ ~resp[t].result

C2_Witness ==
    \E t \in Returned :
        /\ up[t].video = "ok"
        /\ up[t].meta = "failed"
        /\ up[t].ret = "error"
        /\ resp[t].status = 500

\* C3 as stated: once a /download or /upload handler has returned, the
\* directory created for its download no longer exists, on every exit path.
C3_DirGone ==
    \A t \in Returned : dir[t] # NoDir => dir[t] \notin fs

\* C3 amended: on every exit path of a handler whose download directory was
\* created, os.RemoveAll has been called on that directory by the time the
\* handler returns, and the directory no longer exists when that call
\* succeeded; it is left behind only when the call failed.
C3_DirRemovalAttempted ==
    \A t \in Returned :
        /\ dir[t] # NoDir =>
              /\ rm[t] \in {"removed", "failed"}
              /\ rm[t] = "removed" => dir[t] \notin fs
              /\ rm[t] = "failed" => dir[t] \in fs
        /\ dir[t] = NoDir => rm[t] = "none"

C3_Witness ==
    \E t \in Returned :
        /\ dir[t] # NoDir
        /\ rm[t] = "removed"
        /\ resp[t].status = 200
        /\ \E u \in Tasks : u # t /\ dir[u] \in fs

\* C4: at most one invocation of DownloadVideo or GetVideoInfo is inside its
\* critical section at any time, and it is the one holding the mutex.
C4_OneFetcher ==
    /\ Cardinality({t \in Tasks : pc[t] = "running"}) <= 1
    /\ \A t \in Tasks : pc[t] = "running" <=> mu = t

C4_Witness ==
    \E t, u \in Tasks :
        /\ pc[t] = "running" /\ req[t].endpoint = "info"
        /\ pc[u] = "lock" /\ req[u].endpoint = "download"

\* the tasks whose download directory is theirs: from its creation in
\* DownloadVideo to the handler's CleanupFile
DirOwners ==
    {t \in Tasks : dir[t] # NoDir /\
                   pc[t] \in {"running", "streaming", "put_video", "put_meta"}}

\* C5: two requests whose download directories exist at the same time have
\* different directories, and nobody but its owner removes a directory.
C5_DirsDistinct ==
    /\ \A t, u \in DirOwners : t # u => dir[t] # dir[u]
    /\ \A t \in DirOwners : dir[t] \in fs

C5_Witness ==
    \E t, u \in DirOwners :
        /\ t # u
        /\ pc[t] = "streaming"
        /\ pc[u] = "running"

\* C6: the effective timeout bounds the whole fetch chain from handler entry:
\* no request is still waiting for or running its fetch after its deadline
\* has passed, whatever other requests are doing.
C6_DeadlineBoundsFetch ==
    \A t \in Tasks : pc[t] \in {"lock", "running"} => now <= deadline[t]

\* C7: a /download request ends either with 200 and a non-empty body whose
\* Content-Length is the size of the media file, or with a JSON error that
\* carries an error code and no file bytes; never both.
C7_StreamOrError ==
    \A t \in Returned :
        req[t].endpoint = "download" =>
            \/ /\ resp[t].status = 200
               /\ resp[t].form = "file"
               /\ resp[t].clen = media[t].size
               /\ resp[t].clen > 0
            \/ /\ resp[t].status # 200
               /\ resp[t].form = "error_json"
               /\ resp[t].error # ""
               /\ resp[t].sent = 0

\* the ways to read a header as <scheme> <token>, cut at its first space
Credentials(header) ==
    { [scheme |-> SubSeq(header, 1, i - 1), token |-> SubSeq(header, i + 1, Len(header))] :
        i \in {j \in 1..Len(header) :
                 header[j] = " " /\ \A k \in 1..(j - 1) : header[k] # " "} }

\* the header is Bearer <token>, spelled so, and the token has the digest
LiteralBearer ==
    \E c \in Credentials(authHeader) :
        c.scheme = BearerWord /\ hashKey(c.token) = authDigest

\* the header is Bearer <token>, in any letter case, and the token has the digest
AnyCaseBearer ==
    \E c \in Credentials(authHeader) :
        ToLower(c.scheme) = bearerWord /\ hashKey(c.token) = authDigest

\* C8 as stated: with authentication enabled the route handler runs only for
\* a header of the form `Bearer <token>` whose token has the configured
\* digest; any other request gets 401 "unauthorized" and no handler.
C8_OnlyLiteralBearer ==
    authEnabled =>
        /\ handlerRan => LiteralBearer
        /\ (authPc # "arrived" /\ ~LiteralBearer) =>
              (authResp = Unauthorized /\ ~handlerRan)

\* C8 amended: with authentication enabled the route handler runs only for a
\* header <scheme> <token> whose scheme is "bearer" in any letter case and
\* whose token has exactly the configured digest; any other request gets 401
\* "unauthorized" and the handler is never run.
C8_OnlyBearerWithDigest ==
    authEnabled =>
        /\ handlerRan => AnyCaseBearer
        /\ (authPc # "arrived" /\ ~AnyCaseBearer) =>
              (authResp = Unauthorized /\ authPc = "aborted" /\ ~handlerRan)

C8_Witness ==
    /\ authEnabled
    /\ authHeader = BearerWord \o <<" ">> \o <<"q">>
    /\ authDigest = hashKey(<<"k">>)
    /\ authPc = "aborted"
    /\ authResp = Unauthorized

\* C9: SanitizeFilename is idempotent: sanitizing a sanitized name changes
\* nothing, also for inputs longer than the truncation limit.
C9_Idempotent == sanPc = 2 => sanTwice = sanOnce

\* the characters of the input that survive replacement and trimming
KeptChars == SafeChars \ {"_"}

C10_OutputShape ==
    /\ \A i \in 1..Len(sanOnce) : sanOnce[i] \in SafeChars
    /\ Len(sanOnce) <= MaxNameLen
    /\ Len(sanOnce) >= 1

\* C10 as stated: the output is well-formed, and it is the fallback literal
\* exactly when nothing of the input survives replacement and trimming.
C10_FallbackExactly ==
    sanPc >= 1 =>
        /\ C10_OutputShape
        /\ (sanOnce = FallbackName) <=> (\A i \in 1..Len(sanIn) : sanIn[i] \notin KeptChars)

\* C10 amended: the output is well-formed (safe characters only, between 1
\* and 100 of them); when nothing of the input survives replacement and
\* trimming it is the fallback literal, and otherwise it starts and ends
\* with a kept character or was cut at the limit.
C10_WellFormed ==
    sanPc >= 1 =>
        /\ C10_OutputShape
        /\ (\A i \in 1..Len(sanIn) : sanIn[i] \notin KeptChars) => sanOnce = FallbackName
        /\ (\E i \in 1..Len(sanIn) : sanIn[i] \in KeptChars) =>
              /\ sanOnce[1] # "_"
              /\ (sanOnce[Len(sanOnce)] # "_" \/ Len(sanOnce) = MaxNameLen)

C10_Witness ==
    /\ sanPc >= 1
    /\ sanIn = <<"#">> \o <<"_">>
    /\ sanOnce = FallbackName

\* the key next to a video key: the video key up to the last dot of its last
\* path element, or all of it when that element has no dot, plus ".json"
SiblingKey(k) ==
    LET slashes == {i \in 1..Len(k) : k[i] = "/"}
        from    == IF slashes = {} THEN 0 ELSE Max(slashes)
        dots    == {i \in (from + 1)..Len(k) : k[i] = "."}
    IN  IF dots = {} THEN k \o JsonExt
        ELSE SubSeq(k, 1, Max(dots) - 1) \o JsonExt

\* C11: the metadata key of an upload is the video key with its extension
\* replaced by ".json" (appended when it has none), and
\* DeleteVideoAndMetadata addresses the same pair for the same video key.
C11_SiblingKeys ==
    /\ stUp.video = "ok" => stUp.metaKey = SiblingKey(stKey)
    /\ stPc = "deleted" =>
          /\ stDel.attempts[1].key = stKey
          /\ stDel.attempts[Len(stDel.attempts)].key = SiblingKey(stKey)
          /\ stUp.video = "ok" =>
                stDel.attempts[Len(stDel.attempts)].key = stUp.metaKey

C11_Witness ==
    /\ stPc = "deleted"
    /\ stKey = <<"a",".","b","/","c">>
    /\ stUp.metaKey = <<"a",".","b","/","c">> \o JsonExt
    /\ stUp.ret = "result"
    /\ stObjs = {}

\* the request's body parses and has every field its endpoint requires
BodyComplete(r) ==
    /\ r.body.json
    /\ r.body.url
    /\ r.endpoint = "upload" => r.body.s3key

\* C12: a request whose body is malformed or lacks a required field (url,
\* and s3_key for /upload) is answered 400 and has no further effect: it never
\* holds the fetcher's mutex, creates no directory and makes no storage call;
\* no other request is answered 400.
C12_BadRequestNoEffect ==
    \A t \in Tasks :
        req[t].endpoint \in {"download", "upload"} =>
            /\ ~BodyComplete(req[t]) =>
                  /\ pc[t] = "done"
                  /\ resp[t].status = 400
                  /\ ~resp[t].success
                  /\ mu # t
                  /\ dir[t] = NoDir
                  /\ rm[t] = "none"
                  /\ media[t] = NoMedia
                  /\ key[t] = NoName
                  /\ up[t] = NoUpload
            /\ resp[t].status = 400 => ~BodyComplete(req[t])

C12_Witness ==
    \E t, u \in Tasks :
        /\ req[t].endpoint = "upload"
        /\ req[t].body = [json |-> TRUE, url |-> TRUE, s3key |-> FALSE]
        /\ resp[t].status = 400
        /\ pc[u] = "running"

\* the positions of the listing's non-directory, non-JSON entries
MediaEntries(files) ==
    {i \in 1..Len(files) : ~files[i].isDir /\ Ext(files[i].name) # JsonExt}

\* the positions of the listing's entries with the JSON extension
JsonEntries(files) == {i \in 1..Len(files) : Ext(files[i].name) = JsonExt}

Min(set) == CHOOSE i \in set : \A j \in set : i <= j

\* what the scan leaves when the media file is the entry at position pick(M)
\* of the media entries M
ScanPicks(first) ==
    scPc # "listed" =>
        /\ IF MediaEntries(scFiles) = {}
           THEN /\ scOut.videoFile = NoName
                /\ scPc = "returned" => scOut.err = "not_found" /\ scOut.removed
           ELSE /\ scOut.videoFile =
                      scFiles[IF first THEN Min(MediaEntries(scFiles))
                              ELSE Max(MediaEntries(scFiles))].name
                /\ scPc = "returned" =>
                      /\ scOut.err = "nil"
                      /\ ~scOut.removed
                      /\ scOut.path = Join(ScanDirName, scOut.videoFile)
        /\ IF JsonEntries(scFiles) = {} THEN scOut.infoFile = NoName
           ELSE \E i \in JsonEntries(scFiles) : scOut.infoFile = scFiles[i].name

\* C13 as stated: after a successful tool run DownloadVideo takes the first
\* non-directory, non-JSON entry in scan order as the media file and the
\* JSON-extension entry as the sidecar; with no media entry it removes the
\* directory and returns the 'file not found' error.
C13_FirstMediaEntry == ScanPicks(TRUE)

\* C13 amended: the media file is the last non-directory, non-JSON entry in
\* scan order; the sidecar is the JSON-extension entry; with no media entry
\* the directory is removed and the 'file not found' error returned.
C13_LastMediaEntry == ScanPicks(FALSE)

C13_Witness ==
    /\ scPc = "returned"
    /\ Cardinality(MediaEntries(scFiles)) = 2
    /\ scOut.videoFile = <<"v",".","m","p","4">>
    /\ scOut.infoFile # NoName
    /\ scOut.err = "nil"

\* C14: a listing with a media file makes DownloadVideo succeed with the
\* file's path, with a VideoInfo exactly when the sidecar is there, readable
\* and parsable and with nil info otherwise; a listing without a media file
\* makes it fail, whatever the sidecar.
C14_SidecarOptional ==
    scPc = "returned" =>
        IF MediaEntries(scFiles) # {}
        THEN /\ scOut.err = "nil"
             /\ scOut.path # NoName
             /\ scOut.info \in {"VideoInfo", "nil"}
             /\ scOut.info = "VideoInfo" <=>
                    /\ JsonEntries(scFiles) # {}
                    /\ scInfo.readable
                    /\ scInfo.parsable
        ELSE /\ scOut.err = "not_found"
             /\ scOut.path = NoName
             /\ scOut.info = "nil"

C14_Witness ==
    /\ scPc = "returned"
    /\ MediaEntries(scFiles) # {}
    /\ JsonEntries(scFiles) # {}
    /\ scInfo.readable /\ ~scInfo.parsable
    /\ scOut.err = "nil"
    /\ scOut.info = "nil"
    /\ scOut.path # NoName

\* C15: DeleteVideoAndMetadata attempts both deletions, the video first and
\* the metadata second, whether or not the first failed; it returns an error
\* exactly when at least one of them failed, and that error carries every
\* failure.
C15_BothDeletionsAttempted ==
    stPc = "deleted" =>
        /\ Len(stDel.attempts) = 2
        /\ stDel.attempts[1].key = stKey
        /\ stDel.attempts[2].key = SiblingKey(stKey)
        /\ stDel.ret = "error" <=> \E i \in 1..2 : ~stDel.attempts[i].ok
        /\ stDel.ret \in {"error", "nil"}
        /\ stDel.errors = (IF stDel.attempts[1].ok THEN << >> ELSE << "video" >>)
                           \o (IF stDel.attempts[2].ok THEN << >> ELSE << "metadata" >>)

C15_Witness ==
    /\ stPc = "deleted"
    /\ ~stDel.attempts[1].ok
    /\ Len(stDel.attempts) = 2
    /\ stDel.attempts[2].ok
    /\ stDel.ret = "error"
    /\ stUp.ret = "result"
    /\ {o.key : o \in stObjs} = {stKey}

\* C19: for every /upload request the video key and the metadata key differ,
\* whatever the requested s3_key (one ending in .json included), so the
\* metadata put does not overwrite the video object and a returned
\* UploadResult denotes two distinct stored objects.
C19_KeysDistinct ==
    (stIn # NoStoreIn /\ stUp.video = "ok") =>
        /\ stKey # stUp.metaKey
        /\ (stPc = "uploaded" /\ stUp.ret = "result") =>
              /\ [key |-> stKey, body |-> "video"] \in stObjs
              /\ [key |-> stUp.metaKey, body |-> "metadata"] \in stObjs
              /\ Cardinality(stObjs) = 2

\* what the handler of a returned task answers on the strength of its
\* download, its reader and its upload alone
PrimaryAnswers(t) ==
    IF req[t].endpoint = "upload"
    THEN IF up[t].ret = "result" THEN {UploadSuccess}
         ELSE IF up[t].ret = "error" THEN {UploadFailure("upload")}
         ELSE {DownloadFailed("upload")}
    ELSE IF media[t] # NoMedia
         THEN {FileStream(media[t].size, sent) : sent \in 0..media[t].size}
         ELSE {DownloadFailed("download"), ErrorJSON(500, "file_read_error")}

\* C16: a cleanup that fails never changes what the caller receives: the
\* HTTP answer, and the error UploadVideoWithMetadata returned, are the same
\* whether the removal of the directory and the compensating delete
\* succeeded or failed.
C16_CleanupSilent ==
    \A t \in Returned :
        (rm[t] # "none" \/ up[t].del # "none") =>
            /\ resp[t] \in PrimaryAnswers(t)
            /\ up[t].del # "none" => up[t].ret = "error"
            /\ (up[t].video = "ok" /\ up[t].meta = "ok") => up[t].ret = "result"

C16_Witness ==
    \E t \in Returned :
        /\ rm[t] = "failed"
        /\ up[t].del = "failed"
        /\ up[t].ret = "error"
        /\ resp[t] = UploadFailure("upload")

\* where a handler is after a successful DownloadVideo and before its return:
\* streaming the file, or inside UploadVideoWithMetadata
InUse == {"streaming", "put_video", "put_meta"}

\* C18: the directory of a successful download is there, with no removal
\* attempted, for as long as its handler streams or uploads the file; the
\* removal is attempted in the step in which the handler returns, and once
\* per download.
C18_CleanupAfterUse ==
    [][\A t \in Tasks :
          /\ pc[t] \in InUse => (dir[t] \in fs /\ rm[t] = "none")
          /\ pc'[t] \in InUse => (dir'[t] \in fs' /\ rm'[t] = "none")
          /\ (pc[t] \in InUse /\ pc'[t] \notin InUse) =>
                (pc'[t] = "done" /\ rm'[t] # "none")
          /\ rm[t] # "none" => rm'[t] \in {rm[t], "none"}]_vars

C18_Witness ==
    \E t \in Returned, u \in Tasks :
        /\ media[t] # NoMedia
        /\ rm[t] = "removed"
        /\ dir[t] \notin fs
        /\ pc[u] = "streaming"
        /\ dir[u] \in fs

\* C17: GetVideoInfo and DownloadVideo hold the lock only between their
\* Lock() and their return, and release it on every exit path; so, every
\* tool run ending, a lock that is held is eventually free again, and a call
\* that waits for a held lock sees it free again.
C17_LockReleased ==
    /\ [](\A t \in Tasks : fMu = t <=> fPc[t] \in {"held", "running"})
    /\ \A t \in Tasks : (fMu = t) ~> (fMu = NoTask /\ fPc[t] = "returned")
    /\ \A t \in Tasks : (fPc[t] = "lock" /\ fMu # NoTask) ~> (fMu = NoTask)

C17_Witness ==
    \E t, u \in Tasks :
        /\ fPc[t] = "lock"
        /\ fMu = NoTask
        /\ fPc[u] = "returned"
        /\ fCall[u] = "download"
        /\ fRet[u] = "not_found"

====
